---- MODULE Spec2Model ----
(***************************************************************************)
(* tomlsh: the variable-expansion engine (Env::eval and its two scanners)  *)
(* and the sequential script executor (Script::run) of src/main.rs.        *)
(*                                                                         *)
(* A String is a sequence of one-character strings; a Vec<String> is a     *)
(* sequence of Strings; the HashMap Env::binds is a function whose DOMAIN  *)
(* is its key set.  A Peekable<Chars> is the number of characters already  *)
(* consumed, so that peek() is text[pos + 1].                              *)
(***************************************************************************)
EXTENDS Integers, Sequences, FiniteSets, TLC

(* ---------------------------- bounds ----------------------------------- *)
MaxTextLen == 4
MaxBindLen == 2
MaxCmds == 2

(* --------------------------- characters -------------------------------- *)
Sentinel == "$"
\* the characters of the model that satisfy char::is_ascii_alphanumeric
AlnumChars == {"a", "b", "x", "y"}
\* the characters of the model: the sentinel, the alphanumerics, and one
\* character that is neither
Char == AlnumChars \cup {Sentinel, "."}
\* the characters c with c != '$'
NotSentinel == Char \ {Sentinel}
\* the characters the texts of the model are drawn from
TextChars == {"$", "a", "b", "."}

SeqsUpTo(S, n) == UNION {[1..k -> S] : k \in 0..n}

\* strings used as binding names and binding values
NameA == <<"a">>
NameB == <<"b">>
NameSentinel == <<"$">>
ValX == <<"x">>
ValY == <<"y">>
\* a value that reads as a marker
ValRef == <<"$", "b">>

\* the value lists a binding of the model may hold
BindLists == SeqsUpTo({ValX, ValY}, MaxBindLen)

\* the binding tables eval is applied to: a and b unbound or bound to any
\* value list, and "$" (a key no marker can name) unbound or bound
Tables ==
    {b \in UNION {[K -> BindLists] : K \in SUBSET {NameA, NameB, NameSentinel}} :
        NameSentinel \in DOMAIN b => b[NameSentinel] = <<ValX>>}

(***************************************************************************)
(* binds, stderr: Env::binds and the lines written by eprintln!.           *)
(* text, chars, parts, state: one call of eval (its argument, its cursor,  *)
(* its accumulator, and whether it is looping or has returned).            *)
(***************************************************************************)
VARIABLES text, binds, chars, parts, state, stderr

(***************************************************************************)
(* script: the commands of the Script (Script::cmd).                       *)
(* idx, pc: the position of Script::run, the command the for loop stands   *)
(* at and the place in its body ("bind": at the head of the body; "eval":  *)
(* in the loop over the arguments).                                        *)
(* argi, cmd_eval: the cursor of the loop over the arguments and the       *)
(* vector it builds.                                                       *)
(* evals: the calls of eval made so far, with what each returned.          *)
(* procs: the calls of Command::status made so far, with what each         *)
(* returned.                                                               *)
(* result: "running", or what run returned ("ok" for Ok(()), "err" for     *)
(* Err(())).                                                               *)
(***************************************************************************)
VARIABLES script, idx, pc, argi, cmd_eval, evals, procs, result

evalVars == <<text, chars, parts, state>>
runVars == <<script, idx, pc, argi, cmd_eval, evals, procs, result>>
vars == <<text, binds, chars, parts, state, stderr,
          script, idx, pc, argi, cmd_eval, evals, procs, result>>

(* ------------------------- Env::parse_text ----------------------------- *)
\* while let Some(c) = peek.next_if(pred): the position after the maximal
\* run of characters of t, starting after position p, that lie in S
RECURSIVE next_if_run(_, _, _)
next_if_run(t, p, S) ==
    IF p < Len(t) /\ t[p + 1] \in S
    THEN next_if_run(t, p + 1, S)
    ELSE p

\* parse_text scanning with the predicate of parse_bind
parse_text_alnum(t, p) ==
    LET e == next_if_run(t, p, AlnumChars)
        name == SubSeq(t, p + 1, e)
    IN  IF name = <<>>
        THEN [ok |-> FALSE, val |-> <<>>, pos |-> e, err |-> <<>>]
        ELSE [ok |-> TRUE, val |-> name, pos |-> e, err |-> <<>>]

\* parse_text looking at the next character without consuming it
parse_text_peek(t, p) ==
    IF p < Len(t) /\ t[p + 1] # Sentinel
    THEN [ok |-> TRUE, val |-> <<t[p + 1]>>, pos |-> p, err |-> <<>>]
    ELSE [ok |-> FALSE, val |-> <<>>, pos |-> p, err |-> <<>>]

parse_text(t, p) ==
    LET e == next_if_run(t, p, NotSentinel)
        name == SubSeq(t, p + 1, e)
    IN  IF name = <<>>
        THEN [ok |-> FALSE, val |-> <<>>, pos |-> e, err |-> <<>>]
        ELSE [ok |-> TRUE, val |-> name, pos |-> e, err |-> <<>>]

(* ------------------------- Env::parse_bind ----------------------------- *)
MissingBind(name) == <<"Missing bind for", name>>

\* the common tail of parse_bind: the name scan and the lookup
bind_lookup(t, p, b) ==
    LET e == next_if_run(t, p, AlnumChars)
        name == SubSeq(t, p + 1, e)
    IN  IF name = <<>>
        THEN [ok |-> FALSE, val |-> <<>>, pos |-> e, err |-> <<>>]
        ELSE IF name \notin DOMAIN b
        THEN [ok |-> FALSE, val |-> <<>>, pos |-> e,
              err |-> <<MissingBind(name)>>]
        ELSE [ok |-> TRUE, val |-> b[name], pos |-> e, err |-> <<>>]

\* parse_bind looking a second sentinel up as the name "$" when it is bound
parse_bind_lookup_sentinel(t, p, b) ==
    IF p < Len(t) /\ t[p + 1] = Sentinel
    THEN [ok |-> TRUE,
          val |-> IF NameSentinel \in DOMAIN b
                  THEN b[NameSentinel] ELSE << <<Sentinel>> >>,
          pos |-> p + 1, err |-> <<>>]
    ELSE bind_lookup(t, p, b)

\* parse_bind taking a missing binding for an empty one
parse_bind_default(t, p, b) ==
    IF p < Len(t) /\ t[p + 1] = Sentinel
    THEN [ok |-> TRUE, val |-> << <<Sentinel>> >>, pos |-> p + 1, err |-> <<>>]
    ELSE LET r == bind_lookup(t, p, b)
         IN  IF r.err # <<>>
             THEN [ok |-> TRUE, val |-> <<>>, pos |-> r.pos, err |-> <<>>]
             ELSE r

\* parse_bind taking a sentinel without a name for a literal sentinel
parse_bind_lenient(t, p, b) ==
    IF p < Len(t) /\ t[p + 1] = Sentinel
    THEN [ok |-> TRUE, val |-> << <<Sentinel>> >>, pos |-> p + 1, err |-> <<>>]
    ELSE LET r == bind_lookup(t, p, b)
         IN  IF ~r.ok /\ r.err = <<>>
             THEN [ok |-> TRUE, val |-> << <<Sentinel>> >>, pos |-> r.pos,
                   err |-> <<>>]
             ELSE r

\* parse_bind ending the name at the first prefix that is bound
parse_bind_shortest(t, p, b) ==
    IF p < Len(t) /\ t[p + 1] = Sentinel
    THEN [ok |-> TRUE, val |-> << <<Sentinel>> >>, pos |-> p + 1, err |-> <<>>]
    ELSE LET e == next_if_run(t, p, AlnumChars)
             bound == {k \in (p + 1)..e : SubSeq(t, p + 1, k) \in DOMAIN b}
         IN  IF bound = {}
             THEN bind_lookup(t, p, b)
             ELSE LET k == CHOOSE m \in bound : \A n \in bound : m <= n
                  IN  [ok |-> TRUE, val |-> b[SubSeq(t, p + 1, k)],
                       pos |-> k, err |-> <<>>]

parse_bind(t, p, b) ==
    IF p < Len(t) /\ t[p + 1] = Sentinel
    THEN [ok |-> TRUE, val |-> << <<Sentinel>> >>, pos |-> p + 1, err |-> <<>>]
    ELSE LET e == next_if_run(t, p, AlnumChars)
             name == SubSeq(t, p + 1, e)
         IN  IF name = <<>>
             THEN [ok |-> FALSE, val |-> <<>>, pos |-> e, err |-> <<>>]
             ELSE IF name \notin DOMAIN b
             THEN [ok |-> FALSE, val |-> <<>>, pos |-> e,
                   err |-> <<MissingBind(name)>>]
             ELSE [ok |-> TRUE, val |-> b[name], pos |-> e, err |-> <<>>]

(* ---------------------------- Env::eval -------------------------------- *)
\* for bind_each in &bind { tmp.push(part.clone() + &bind_each) }
RECURSIVE push_each(_, _, _, _)
push_each(tmp, part, bind, j) ==
    IF j > Len(bind)
    THEN tmp
    ELSE push_each(Append(tmp, part \o bind[j]), part, bind, j + 1)

\* for part in parts { for bind_each in &bind { ... } }, from tmp.clear()
RECURSIVE for_part(_, _, _, _)
for_part(tmp, ps, bind, i) ==
    IF i > Len(ps)
    THEN tmp
    ELSE for_part(push_each(tmp, ps[i], bind, 1), ps, bind, i + 1)

\* the new value of parts after a marker that yielded bind
join_bind(ps, bind) ==
    IF ps = <<>> THEN bind ELSE for_part(<<>>, ps, bind, 1)

\* the new value of parts after a literal run txt
join_text(ps, txt) ==
    IF ps = <<>> THEN <<txt>> ELSE [i \in 1..Len(ps) |-> ps[i] \o txt]

\* the state of one call of eval: the cursor, the accumulator, whether the
\* loop is running ("loop") or has returned Ok(parts) ("ok") or Err(())
\* ("err", the locals dropped), and the lines written to standard error
EvalStart == [pos |-> 0, parts |-> <<>>, st |-> "loop", err |-> <<>>]

\* one iteration of the loop of eval, the end of the text met before any
\* character was consumed being an error
eval_iter_empty_err(t, b, s) ==
    IF s.pos < Len(t) /\ t[s.pos + 1] = Sentinel
    THEN LET r == parse_bind(t, s.pos + 1, b)
         IN  IF r.ok
             THEN [pos |-> r.pos, parts |-> join_bind(s.parts, r.val),
                   st |-> "loop", err |-> s.err]
             ELSE [pos |-> r.pos, parts |-> <<>>, st |-> "err",
                   err |-> s.err \o r.err]
    ELSE IF s.pos < Len(t)
    THEN LET r == parse_text(t, s.pos)
         IN  IF r.ok
             THEN [pos |-> r.pos, parts |-> join_text(s.parts, r.val),
                   st |-> "loop", err |-> s.err]
             ELSE [pos |-> r.pos, parts |-> <<>>, st |-> "err",
                   err |-> s.err \o r.err]
    ELSE IF s.pos = 0
    THEN [s EXCEPT !.st = "err"]
    ELSE [s EXCEPT !.st = "ok"]

\* one iteration of the loop of eval
eval_iter(t, b, s) ==
    IF s.pos < Len(t) /\ t[s.pos + 1] = Sentinel
    THEN LET r == parse_bind(t, s.pos + 1, b)
         IN  IF r.ok
             THEN [pos |-> r.pos, parts |-> join_bind(s.parts, r.val),
                   st |-> "loop", err |-> s.err]
             ELSE [pos |-> r.pos, parts |-> <<>>, st |-> "err",
                   err |-> s.err \o r.err]
    ELSE IF s.pos < Len(t)
    THEN LET r == parse_text(t, s.pos)
         IN  IF r.ok
             THEN [pos |-> r.pos, parts |-> join_text(s.parts, r.val),
                   st |-> "loop", err |-> s.err]
             ELSE [pos |-> r.pos, parts |-> <<>>, st |-> "err",
                   err |-> s.err \o r.err]
    ELSE [s EXCEPT !.st = "ok"]

RECURSIVE eval_loop(_, _, _)
eval_loop(t, b, s) ==
    IF s.st = "loop" THEN eval_loop(t, b, eval_iter(t, b, s)) ELSE s

\* Env::eval: Ok(parts) or Err(()), with the lines written to standard error
eval(t, b) ==
    LET s == eval_loop(t, b, EvalStart)
    IN  IF s.st = "ok"
        THEN [ok |-> TRUE, val |-> s.parts, err |-> s.err]
        ELSE [ok |-> FALSE, val |-> <<>>, err |-> s.err]

(* ------------------- eval applied to a text and a table ----------------- *)
\* as in test_eval: an Env built directly with a table of T, and eval
\* called on a text
InitEvalOn(T) ==
    /\ text \in SeqsUpTo(TextChars, MaxTextLen)
    /\ binds \in T
    /\ chars = EvalStart.pos
    /\ parts = EvalStart.parts
    /\ state = EvalStart.st
    /\ stderr = EvalStart.err
    /\ script = <<>> /\ idx = 1 /\ pc = "bind" /\ argi = 1
    /\ cmd_eval = <<>> /\ evals = <<>> /\ procs = <<>>
    /\ result = "running"

InitEval == InitEvalOn(Tables)

\* the tables whose bindings hold at most one value: the scan reads of a
\* binding only whether it exists, and the accumulator only grows with it
ScanTables == {b \in Tables : \A n \in DOMAIN b : Len(b[n]) <= 1}

InitScan == InitEvalOn(ScanTables)

Cur == [pos |-> chars, parts |-> parts, st |-> state, err |-> stderr]

Step ==
    LET s == eval_iter(text, binds, Cur)
    IN  /\ chars' = s.pos
        /\ parts' = s.parts
        /\ state' = s.st
        /\ stderr' = s.err
        /\ UNCHANGED <<text, binds>>
        /\ UNCHANGED runVars

\* match chars.peek() { Some(&'$') => ... }
EvalBind ==
    /\ state = "loop"
    /\ chars < Len(text) /\ text[chars + 1] = Sentinel
    /\ Step

\* match chars.peek() { Some(_) => ... }
EvalText ==
    /\ state = "loop"
    /\ chars < Len(text) /\ text[chars + 1] # Sentinel
    /\ Step

\* match chars.peek() { None => break }, then Ok(parts)
EvalBreak ==
    /\ state = "loop"
    /\ chars >= Len(text)
    /\ Step

NextEval == EvalBind \/ EvalText \/ EvalBreak

SpecEval == InitEval /\ [][NextEval]_vars

\* eval is sequential code: a loop that can take its next iteration does
SpecEvalFair == InitScan /\ [][NextEval]_vars /\ WF_vars(NextEval)

(* ----------------------------- Script::run ---------------------------- *)
\* argument texts of the model
TextMarkA == <<"$", "a">>
TextMarkB == <<"$", "b">>
TextLit == <<"a">>
TextLone == <<"$">>

\* the commands of the model: Cmd::name, Cmd::bind and Cmd::cmd (Cmd::cwd
\* is read nowhere in run)
CmdSet ==
    [name : {<<>>, NameA, NameB},
     bind : {<<>>, <<ValX>>, <<ValX, ValY>>, <<ValRef>>},
     cmd  : {<<>>, <<TextMarkA>>, <<TextMarkA, TextMarkA>>,
             <<TextLit, TextMarkB>>, <<TextLit, TextLone>>}]

\* what Command::status returns: Err(_), Ok(status) with !status.success(),
\* Ok(status) with status.success()
Outcomes == {"nostart", "nonzero", "zero"}

\* main: a Script read from the file and a fresh Env
Init ==
    /\ script \in SeqsUpTo(CmdSet, MaxCmds)
    /\ binds = <<>>
    /\ stderr = <<>>
    /\ idx = 1 /\ pc = "bind" /\ argi = 1
    /\ cmd_eval = <<>> /\ evals = <<>> /\ procs = <<>>
    /\ result = "running"
    /\ text = <<>> /\ chars = 0 /\ parts = <<>> /\ state = "none"

\* an insert that keeps the value of a key already present
insert_keep(b, k, v) ==
    [n \in DOMAIN b \cup {k} |-> IF n \in DOMAIN b THEN b[n] ELSE v]

\* an insert into a table that is built anew
insert_fresh(b, k, v) == [n \in {k} |-> v]

\* HashMap::insert
insert(b, k, v) == [n \in DOMAIN b \cup {k} |-> IF n = k THEN v ELSE b[n]]

\* the values vs[1..n] run through eval against b, failures dropped
RECURSIVE expand_all(_, _, _)
expand_all(vs, b, n) ==
    IF n = 0 THEN <<>> ELSE expand_all(vs, b, n - 1) \o eval(vs[n], b).val

\* the head of the body, the value list expanded before it is installed
RunBind_expand_values ==
    /\ result = "running" /\ pc = "bind" /\ idx <= Len(script)
    /\ LET c == script[idx]
       IN  /\ binds' = IF c.name # <<>>
                       THEN insert(binds, c.name,
                                   expand_all(c.bind, binds, Len(c.bind)))
                       ELSE binds
           /\ IF c.cmd # <<>>
              THEN /\ pc' = "eval" /\ argi' = 1 /\ cmd_eval' = <<>>
                   /\ idx' = idx
              ELSE /\ idx' = idx + 1
                   /\ UNCHANGED <<pc, argi, cmd_eval>>
    /\ UNCHANGED <<script, evals, procs, result, stderr, evalVars>>

\* the head of the body of the for loop: the binding of the command is
\* installed, then its arguments are entered or the next command is taken
RunBind ==
    /\ result = "running" /\ pc = "bind" /\ idx <= Len(script)
    /\ LET c == script[idx]
       IN  /\ binds' = IF c.name # <<>> THEN insert(binds, c.name, c.bind)
                       ELSE binds
           /\ IF c.cmd # <<>>
              THEN /\ pc' = "eval" /\ argi' = 1 /\ cmd_eval' = <<>>
                   /\ idx' = idx
              ELSE /\ idx' = idx + 1
                   /\ UNCHANGED <<pc, argi, cmd_eval>>
    /\ UNCHANGED <<script, evals, procs, result, stderr, evalVars>>

\* an argument whose expansion failed taken for one without variants
RunEval_swallow ==
    /\ result = "running" /\ pc = "eval" /\ argi <= Len(script[idx].cmd)
    /\ LET r == eval(script[idx].cmd[argi], binds)
       IN  /\ evals' = Append(evals, [cmd |-> idx, arg |-> argi, res |-> r])
           /\ stderr' = stderr \o r.err
           /\ cmd_eval' = cmd_eval \o r.val
           /\ argi' = argi + 1
           /\ UNCHANGED result
    /\ UNCHANGED <<script, idx, pc, binds, procs, evalVars>>

\* the variants of an argument put before those of the earlier arguments
RunEval_prepend ==
    /\ result = "running" /\ pc = "eval" /\ argi <= Len(script[idx].cmd)
    /\ LET r == eval(script[idx].cmd[argi], binds)
       IN  /\ evals' = Append(evals, [cmd |-> idx, arg |-> argi, res |-> r])
           /\ stderr' = stderr \o r.err
           /\ IF r.ok
              THEN /\ cmd_eval' = r.val \o cmd_eval
                   /\ argi' = argi + 1
                   /\ UNCHANGED result
              ELSE /\ result' = "err"
                   /\ UNCHANGED <<cmd_eval, argi>>
    /\ UNCHANGED <<script, idx, pc, binds, procs, evalVars>>

\* for arg in cmd { cmd_eval.extend(env.eval(arg)?) }, one argument
RunEval ==
    /\ result = "running" /\ pc = "eval" /\ argi <= Len(script[idx].cmd)
    /\ LET r == eval(script[idx].cmd[argi], binds)
       IN  /\ evals' = Append(evals, [cmd |-> idx, arg |-> argi, res |-> r])
           /\ stderr' = stderr \o r.err
           /\ IF r.ok
              THEN /\ cmd_eval' = cmd_eval \o r.val
                   /\ argi' = argi + 1
                   /\ UNCHANGED result
              ELSE /\ result' = "err"
                   /\ UNCHANGED <<cmd_eval, argi>>
    /\ UNCHANGED <<script, idx, pc, binds, procs, evalVars>>

\* an empty vector taken for a command with nothing to run
RunEmpty_skip ==
    /\ result = "running" /\ pc = "eval" /\ argi > Len(script[idx].cmd)
    /\ cmd_eval = <<>>
    /\ idx' = idx + 1 /\ pc' = "bind"
    /\ UNCHANGED <<script, argi, cmd_eval, evals, procs, binds, result,
                   stderr, evalVars>>

\* if cmd_eval.is_empty() { ...; return Err(()) }
RunEmpty ==
    /\ result = "running" /\ pc = "eval" /\ argi > Len(script[idx].cmd)
    /\ cmd_eval = <<>>
    /\ stderr' = Append(stderr, <<"Empty command", script[idx].cmd>>)
    /\ result' = "err"
    /\ UNCHANGED <<script, idx, pc, argi, cmd_eval, evals, procs, binds,
                   evalVars>>

\* run going on to the next command after a process that exited non-zero
after_status_ignore_nonzero(o) ==
    IF o = "nostart"
    THEN /\ stderr' = Append(stderr, <<"Failed start command", cmd_eval[1]>>)
         /\ result' = "err"
         /\ UNCHANGED <<idx, pc>>
    ELSE /\ idx' = idx + 1 /\ pc' = "bind"
         /\ UNCHANGED <<stderr, result>>

\* run taking a process that could not be started for one that succeeded
after_status_ignore_nostart(o) ==
    IF o = "nonzero"
    THEN /\ stderr' = Append(stderr, <<"Command failed", cmd_eval[1]>>)
         /\ result' = "err"
         /\ UNCHANGED <<idx, pc>>
    ELSE /\ idx' = idx + 1 /\ pc' = "bind"
         /\ UNCHANGED <<stderr, result>>

\* what run does with the value o returned by Command::status
after_status(o) ==
    IF o = "nostart"
    THEN /\ stderr' = Append(stderr, <<"Failed start command", cmd_eval[1]>>)
         /\ result' = "err"
         /\ UNCHANGED <<idx, pc>>
    ELSE IF o = "nonzero"
    THEN /\ stderr' = Append(stderr, <<"Command failed", cmd_eval[1]>>)
         /\ result' = "err"
         /\ UNCHANGED <<idx, pc>>
    ELSE /\ idx' = idx + 1 /\ pc' = "bind"
         /\ UNCHANGED <<stderr, result>>

\* Command::new(&cmd_eval[0]).args(&cmd_eval[1..]).status(), waited for
RunExec(o) ==
    /\ result = "running" /\ pc = "eval" /\ argi > Len(script[idx].cmd)
    /\ cmd_eval # <<>>
    /\ procs' = Append(procs, [cmd |-> idx, program |-> cmd_eval[1],
                               args |-> Tail(cmd_eval), status |-> o])
    /\ after_status(o)
    /\ UNCHANGED <<script, argi, cmd_eval, evals, binds, evalVars>>

\* the for loop is exhausted: Ok(())
RunReturn ==
    /\ result = "running" /\ pc = "bind" /\ idx > Len(script)
    /\ result' = "ok"
    /\ UNCHANGED <<script, idx, pc, argi, cmd_eval, evals, procs, binds,
                   stderr, evalVars>>

Next ==
    \/ RunBind
    \/ RunEval
    \/ RunEmpty
    \/ \E o \in Outcomes : RunExec(o)
    \/ RunReturn

Spec == Init /\ [][Next]_vars

Returned == state # "loop"

(* ------------- the grammar of a text, for stating the claims ----------- *)
\* the length of the maximal run of characters in S after position p
RunLen(t, p, S) ==
    CHOOSE k \in 0..(Len(t) - p) :
        /\ \A j \in 1..k : t[p + j] \in S
        /\ (p + k < Len(t) => t[p + k + 1] \notin S)

IsEscapeAt(t, p) ==
    p + 2 <= Len(t) /\ t[p + 1] = Sentinel /\ t[p + 2] = Sentinel

IsMarkerAt(t, p) ==
    /\ p + 2 <= Len(t) /\ t[p + 1] = Sentinel
    /\ t[p + 2] \in AlnumChars

\* a sentinel followed neither by a sentinel nor by an alphanumeric
IsLoneSentinelAt(t, p) ==
    /\ p + 1 <= Len(t) /\ t[p + 1] = Sentinel
    /\ (p + 2 <= Len(t) => t[p + 2] \notin AlnumChars \cup {Sentinel})

IsLiteralAt(t, p) == p + 1 <= Len(t) /\ t[p + 1] # Sentinel

MarkerName(t, p) == SubSeq(t, p + 2, p + 1 + RunLen(t, p + 1, AlnumChars))

\* the position after the token that starts after position p
TokenEnd(t, p) ==
    IF IsEscapeAt(t, p) THEN p + 2
    ELSE IF IsMarkerAt(t, p) THEN p + 1 + RunLen(t, p + 1, AlnumChars)
    ELSE IF IsLiteralAt(t, p) THEN p + RunLen(t, p, NotSentinel)
    ELSE p

\* the positions at which the tokens of t start, up to and including the
\* first sentinel that starts no token
RECURSIVE TokenStarts(_, _)
TokenStarts(t, p) ==
    IF p >= Len(t) THEN <<>>
    ELSE IF IsLoneSentinelAt(t, p) THEN <<p>>
    ELSE <<p>> \o TokenStarts(t, TokenEnd(t, p))

Starts(t) == TokenStarts(t, 0)
StartSet(t) == {Starts(t)[k] : k \in 1..Len(Starts(t))}

\* the text is a concatenation of escapes, markers and literal runs
Scans(t) == \A p \in StartSet(t) : ~IsLoneSentinelAt(t, p)

\* the markers of t whose name is not a key of b
UnboundAt(t, b) ==
    {p \in StartSet(t) : IsMarkerAt(t, p) /\ MarkerName(t, p) \notin DOMAIN b}

\* the variant list of the token that starts after position p
Variants(t, p, b) ==
    IF IsEscapeAt(t, p) THEN << <<Sentinel>> >>
    ELSE IF IsMarkerAt(t, p) THEN b[MarkerName(t, p)]
    ELSE <<SubSeq(t, p + 1, TokenEnd(t, p))>>

\* every existing string p, in order, followed by every v of V, in order
Concat2(P, V) ==
    [k \in 1..(Len(P) * Len(V)) |->
        P[((k - 1) \div Len(V)) + 1] \o V[((k - 1) % Len(V)) + 1]]

\* the cartesian concatenation of the variant lists of the first n tokens
RECURSIVE Cartesian(_, _, _)
Cartesian(t, b, n) ==
    IF n = 1 THEN Variants(t, Starts(t)[1], b)
    ELSE Concat2(Cartesian(t, b, n - 1), Variants(t, Starts(t)[n], b))

\* the text scans and every marker of it is bound
Expands(t, b) == Scans(t) /\ UnboundAt(t, b) = {}

\* the markers of t whose binding holds no value
EmptyAt(t, b) ==
    {p \in StartSet(t) : /\ IsMarkerAt(t, p)
                         /\ MarkerName(t, p) \in DOMAIN b
                         /\ b[MarkerName(t, p)] = <<>>}

Min(S) == CHOOSE m \in S : \A n \in S : m <= n

NoSentinel(t) == \A k \in 1..Len(t) : t[k] # Sentinel

\* the text is prefix $name suffix, with one sentinel, after position p
IsPrefixMarkerSuffix(t, p) ==
    /\ IsMarkerAt(t, p)
    /\ \A k \in 1..Len(t) : t[k] = Sentinel => k = p + 1

(* ------------------------------ C1 ------------------------------------- *)
\* C1: when the text scans, every marker is bound and some marker names a
\* binding with the empty value list, eval returns Ok of the empty list,
\* wherever that marker stands.
C1_EmptyBindingCollapses ==
    (Returned /\ Expands(text, binds) /\ EmptyAt(text, binds) # {})
        => (state = "ok" /\ parts = <<>>)

(* ------------------------------ C2 ------------------------------------- *)
\* C2: when the text scans into tokens with variant lists V1..Vn, eval
\* returns their cartesian concatenation, earlier tokens varying slower.
C2_CartesianOrder ==
    (Returned /\ text # <<>> /\ Expands(text, binds))
        => (/\ state = "ok"
            /\ parts = Cartesian(text, binds, Len(Starts(text))))

(* ------------------------------ C3 ------------------------------------- *)
\* C3: for a text prefix $b suffix with no other sentinel and b bound to
\* [v1, v2, ...] of any length, eval returns [prefix v1 suffix, prefix v2
\* suffix, ...] in the order of the values.
C3_PrefixMarkerSuffix ==
    \A p \in 0..Len(text) :
        (/\ Returned
         /\ IsPrefixMarkerSuffix(text, p)
         /\ MarkerName(text, p) \in DOMAIN binds)
            => LET v == binds[MarkerName(text, p)]
                   prefix == SubSeq(text, 1, p)
                   suffix == SubSeq(text, TokenEnd(text, p) + 1, Len(text))
               IN  /\ state = "ok"
                   /\ parts = [i \in 1..Len(v) |-> prefix \o v[i] \o suffix]

(* ------------------------------ C4 ------------------------------------- *)
\* C4 (as claimed): for every text without a sentinel, eval returns [text].
C4_NoSentinelIdentity ==
    (Returned /\ NoSentinel(text)) => (state = "ok" /\ parts = <<text>>)

\* C4 (amended): for every non-empty text without a sentinel, and every
\* table, eval returns exactly [text] and writes no diagnostic.
C4_NonEmptyNoSentinelIdentity ==
    (Returned /\ text # <<>> /\ NoSentinel(text))
        => (state = "ok" /\ parts = <<text>> /\ stderr = <<>>)

C4_Witness ==
    /\ Returned /\ NoSentinel(text) /\ Len(text) >= 3
    /\ \E k \in 1..Len(text) : text[k] \notin AlnumChars
    /\ DOMAIN binds # {}
    /\ parts = <<text>>

(* ------------------------------ C5 ------------------------------------- *)
\* C5: an iteration of eval that stands at $$ consumes exactly two
\* characters, fails never, writes no diagnostic and joins the single
\* variant "$" to the accumulator, whatever the table holds; and eval of
\* the text $$ returns ["$"] for every table, a key "$" included.
C5_EscapeIsLiteralSentinel ==
    /\ []((Returned /\ text = <<Sentinel, Sentinel>>)
            => (state = "ok" /\ parts = << <<Sentinel>> >> /\ stderr = <<>>))
    /\ [][(state = "loop" /\ IsEscapeAt(text, chars))
            => (/\ chars' = chars + 2
                /\ state' = "loop"
                /\ stderr' = stderr
                /\ parts' = IF parts = <<>>
                             THEN << <<Sentinel>> >>
                             ELSE [i \in 1..Len(parts) |->
                                      parts[i] \o <<Sentinel>>])]_vars

C5_Witness ==
    /\ state = "ok"
    /\ NameSentinel \in DOMAIN binds
    /\ \E p \in StartSet(text) : p > 0 /\ IsEscapeAt(text, p)
    /\ \E i \in 1..Len(parts) : Len(parts[i]) >= 2

(* ------------------------------ C6 ------------------------------------- *)
\* C6: when the scan of the text meets a marker whose name is not a key of
\* the table, eval returns Err and no list, and has reported the first
\* such name as missing, whatever precedes or follows that marker.
C6_UnboundMarkerFails ==
    (Returned /\ UnboundAt(text, binds) # {})
        => (/\ state = "err"
            /\ parts = <<>>
            /\ stderr = <<MissingBind(MarkerName(text,
                                         Min(UnboundAt(text, binds))))>>)

C6_Witness ==
    /\ state = "err"
    /\ \E p \in UnboundAt(text, binds) :
          /\ p > 0
          /\ TokenEnd(text, p) < Len(text)

(* ------------------------------ C7 ------------------------------------- *)
\* C7: when the scan of the text meets a sentinel followed neither by a
\* sentinel nor by an alphanumeric (another character, or the end of the
\* text), eval returns Err and no list, for every table; it is the silent
\* syntax error unless an earlier marker is unbound.
C7_LoneSentinelFails ==
    (Returned /\ ~Scans(text))
        => (/\ state = "err"
            /\ parts = <<>>
            /\ (UnboundAt(text, binds) = {} => stderr = <<>>))

C7_Witness ==
    /\ state = "err"
    /\ DOMAIN binds # {}
    /\ UnboundAt(text, binds) = {}
    /\ \E p \in StartSet(text) :
          /\ p > 0 /\ p + 1 < Len(text)
          /\ IsLoneSentinelAt(text, p)

Max(S) == CHOOSE m \in S : \A n \in S : m >= n

\* the commands among the first i of sc that declare the name n
Declares(sc, i, n) == {j \in 1..i : sc[j].name = n}

\* the table the first i commands of sc declare: every non-empty name
\* with the value list of the last command that declares it
DeclTable(sc, i) ==
    [n \in {sc[j].name : j \in 1..i} \ {<<>>} |->
        sc[Max(Declares(sc, i, n))].bind]

\* C9: the table holds, for every non-empty name declared so far (the
\* command at hand included once its arguments are reached), exactly the
\* value list of the last command that declared it, and every argument was
\* expanded against the table of the declarations up to its own command.
C9_LastDeclarationVisible ==
    /\ binds = DeclTable(script, IF pc = "bind" THEN idx - 1 ELSE idx)
    /\ \A k \in 1..Len(evals) :
          evals[k].res = eval(script[evals[k].cmd].cmd[evals[k].arg],
                              DeclTable(script, evals[k].cmd))

C9_Witness ==
    /\ Len(script) = 2 /\ idx = 2 /\ pc = "eval"
    /\ script[1].name = NameA /\ script[1].bind = <<ValX, ValY>>
    /\ script[2].name = NameA /\ script[2].bind = <<ValX>>
    /\ script[2].cmd = <<TextMarkA>>
    /\ evals # <<>>
    /\ evals[Len(evals)].cmd = 2
    /\ evals[Len(evals)].res.val = <<ValX>>

(* ------------------------------ C10 ------------------------------------ *)
\* an expansion returned an error, a command came out empty, or a process
\* did not start or exited non-zero
Failed ==
    \/ \E k \in 1..Len(evals) : ~evals[k].res.ok
    \/ \E k \in 1..Len(procs) : procs[k].status # "zero"
    \/ \E k \in 1..Len(stderr) : stderr[k][1] = "Empty command"

\* C10: once a command has failed, run has returned Err; only commands up
\* to the failed one have installed a binding, had an argument expanded or
\* had a process dispatched, and from then on no binding is installed, no
\* argument expanded and no process dispatched.
C10_FailFast ==
    /\ [](Failed =>
            /\ result = "err"
            /\ idx <= Len(script)
            /\ binds = DeclTable(script, idx)
            /\ \A k \in 1..Len(evals) : evals[k].cmd <= idx
            /\ \A k \in 1..Len(procs) : procs[k].cmd <= idx)
    /\ [][Failed => (/\ binds' = binds /\ evals' = evals /\ procs' = procs
                     /\ idx' = idx /\ result' = "err")]_vars

C10_Witness ==
    /\ result = "err" /\ idx = 1 /\ Len(script) = 2
    /\ script[2].name # <<>> /\ script[2].cmd # <<>>
    /\ Len(procs) = 1 /\ procs[1].status = "nonzero"

(* ------------------------------ C11 ------------------------------------ *)
EmptyCommand(i) == <<"Empty command", script[i].cmd>>

\* every argument of command i has been expanded, each to zero variants
AllArgsEmpty(i) ==
    /\ script[i].cmd # <<>>
    /\ \A j \in 1..Len(script[i].cmd) :
          \E k \in 1..Len(evals) :
              /\ evals[k].cmd = i /\ evals[k].arg = j
              /\ evals[k].res.ok /\ evals[k].res.val = <<>>

\* C11: a command with a non-empty argument list whose every argument has
\* expanded to zero variants never has a process dispatched and never lets
\* run return Ok; the step that follows the last expansion returns Err
\* after the "Empty command" line.
C11_EmptyCommandFails ==
    /\ [](\A i \in 1..Len(script) :
            AllArgsEmpty(i) =>
                /\ idx = i /\ result # "ok"
                /\ \A k \in 1..Len(procs) : procs[k].cmd # i
                /\ (result = "err" =>
                        stderr[Len(stderr)] = EmptyCommand(i)))
    /\ [][(result = "running" /\ idx <= Len(script) /\ AllArgsEmpty(idx))
            => (/\ result' = "err"
                /\ stderr' = Append(stderr, EmptyCommand(idx))
                /\ procs' = procs)]_vars

C11_Witness ==
    /\ result = "err" /\ idx = 2
    /\ Len(script[idx].cmd) = 2 /\ AllArgsEmpty(idx)
    /\ Len(procs) = 1
    /\ stderr = <<EmptyCommand(idx)>>

(* ------------------------------ C12 ------------------------------------ *)
\* command i declares no argument (a no-op, or a binding only), or its
\* process was dispatched and exited with status zero
CmdSucceeded(i) ==
    \/ script[i].cmd = <<>>
    \/ \E k \in 1..Len(procs) : procs[k].cmd = i /\ procs[k].status = "zero"

\* C12: run returns Ok exactly when every command succeeded (it returns
\* Err only with a command that did not); the processes are dispatched in
\* the order of the commands, at most one per command, each after every
\* earlier command succeeded and every earlier process exited with zero.
C12_SuccessIffAllSucceeded ==
    /\ (result = "ok" => \A i \in 1..Len(script) : CmdSucceeded(i))
    /\ (result = "err" => \E i \in 1..Len(script) : ~CmdSucceeded(i))
    /\ \A k \in 1..Len(procs) :
          /\ \A l \in 1..(k - 1) :
                procs[l].cmd < procs[k].cmd /\ procs[l].status = "zero"
          /\ \A i \in 1..(procs[k].cmd - 1) : CmdSucceeded(i)

C12_Witness ==
    /\ result = "ok" /\ Len(script) = 2 /\ Len(procs) = 2
    /\ script[1].name # <<>>
    /\ Len(procs[2].args) = 2

(* ------------------------------ C13 ------------------------------------ *)
\* the variants of the first n argument texts of args against table b, in
\* the order of the arguments and, within one argument, of its variants
RECURSIVE FlatArgs(_, _, _)
FlatArgs(args, b, n) ==
    IF n = 0 THEN <<>>
    ELSE FlatArgs(args, b, n - 1) \o eval(args[n], b).val

\* C13: the program name followed by the positional arguments of every
\* dispatched process is the concatenation of the expansions of the
\* command's arguments against the table of that command, and the vector
\* under construction is that of the arguments expanded so far.
C13_VectorIsFlattenedExpansion ==
    /\ \A k \in 1..Len(procs) :
          LET c == procs[k].cmd
          IN  <<procs[k].program>> \o procs[k].args
                  = FlatArgs(script[c].cmd, DeclTable(script, c),
                             Len(script[c].cmd))
    /\ ((pc = "eval" /\ result = "running" /\ idx <= Len(script))
            => cmd_eval = FlatArgs(script[idx].cmd, DeclTable(script, idx),
                                   argi - 1))

C13_Witness ==
    /\ Len(procs) = 1
    /\ script[1].cmd = <<TextLit, TextMarkB>>
    /\ procs[1].program = TextLit
    /\ procs[1].args = <<ValX, ValY>>

(* ------------------------------ C14 ------------------------------------ *)
\* argument j of command i has been expanded, successfully
Expanded(i, j) ==
    \E k \in 1..Len(evals) :
        evals[k].cmd = i /\ evals[k].arg = j /\ evals[k].res.ok

\* C14: once the expansion of an argument has failed, run has returned
\* Err and no process is ever dispatched for that command, whatever its
\* earlier arguments yielded; and a process is dispatched only when every
\* argument of its command has been expanded successfully before.
C14_NoDispatchAfterFailedExpansion ==
    /\ [](\A k \in 1..Len(evals) :
            ~evals[k].res.ok =>
                /\ result = "err"
                /\ \A l \in 1..Len(procs) : procs[l].cmd # evals[k].cmd)
    /\ [][procs' # procs =>
            \A j \in 1..Len(script[idx].cmd) : Expanded(idx, j)]_vars
    /\ [](\A l \in 1..Len(procs) :
            \A j \in 1..Len(script[procs[l].cmd].cmd) :
                Expanded(procs[l].cmd, j))

C14_Witness ==
    /\ result = "err" /\ procs = <<>>
    /\ Len(evals) = 2
    /\ evals[1].cmd = evals[2].cmd
    /\ evals[1].res.ok /\ evals[1].res.val # <<>>
    /\ ~evals[2].res.ok /\ evals[2].res.err # <<>>

(* ------------------------------ C15 ------------------------------------ *)
\* the text is one marker and nothing else
IsMarkerOnly(t) == IsMarkerAt(t, 0) /\ TokenEnd(t, 0) = Len(t)

\* C15: the step that installs the binding of a command stores the value
\* list of the command as it is, a value with a sentinel included, without
\* a diagnostic, an expansion or a failure; and an argument that is one
\* marker expands to the value list as the declaring command wrote it,
\* no value scanned again.
C15_ValuesStoredVerbatim ==
    /\ [][(/\ result = "running" /\ pc = "bind" /\ idx <= Len(script)
            /\ script[idx].name # <<>>)
            => (/\ script[idx].name \in DOMAIN binds'
                /\ binds'[script[idx].name] = script[idx].bind
                /\ stderr' = stderr /\ evals' = evals
                /\ result' = "running")]_vars
    /\ [](\A k \in 1..Len(evals) :
            LET c == evals[k].cmd
                t == script[c].cmd[evals[k].arg]
                n == MarkerName(t, 0)
            IN  (IsMarkerOnly(t) /\ Declares(script, c, n) # {})
                    => /\ evals[k].res.ok
                       /\ evals[k].res.val
                              = script[Max(Declares(script, c, n))].bind)

C15_Witness ==
    /\ NameB \in DOMAIN binds /\ binds[NameB] # <<>>
    /\ NameA \in DOMAIN binds /\ binds[NameA] = <<ValRef>>
    /\ Len(procs) = 1 /\ procs[1].program = ValRef

(* ------------------------------ C16 ------------------------------------ *)
\* C16: an iteration of eval that stands at a marker looks up the maximal
\* run of alphanumerics after the sentinel and no shorter prefix of it:
\* when that name is unbound eval returns Err after reporting that name,
\* whatever prefix of it is bound; when it is bound its values are joined
\* and the cursor stands after the run, before a character that is not
\* alphanumeric or at the end of the text.  With a bound and ab unbound,
\* eval of $ab fails for the name ab.
C16_NameIsMaximalRun ==
    /\ [][(state = "loop" /\ IsMarkerAt(text, chars))
            => LET n == MarkerName(text, chars)
               IN  IF n \in DOMAIN binds
                   THEN /\ state' = "loop"
                        /\ chars' = chars + 1 + Len(n)
                        /\ (chars' < Len(text)
                               => text[chars' + 1] \notin AlnumChars)
                        /\ parts' = IF parts = <<>> THEN binds[n]
                                     ELSE Concat2(parts, binds[n])
                        /\ stderr' = stderr
                   ELSE /\ state' = "err"
                        /\ stderr' = Append(stderr, MissingBind(n))]_vars
    /\ []((/\ Returned /\ text = <<Sentinel, "a", "b">>
            /\ NameA \in DOMAIN binds /\ <<"a", "b">> \notin DOMAIN binds)
            => (/\ state = "err"
                /\ stderr = <<MissingBind(<<"a", "b">>)>>))

C16_Witness ==
    /\ state = "err"
    /\ text = <<Sentinel, "a", "b">>
    /\ NameA \in DOMAIN binds /\ binds[NameA] # <<>>
    /\ stderr = <<MissingBind(<<"a", "b">>)>>

(* ------------------------------ C17 ------------------------------------ *)
\* run stands at the head of the body for a command it has yet to take
AtCommand == result = "running" /\ pc = "bind" /\ idx <= Len(script)

\* C17: the table is empty when run starts; it changes only in the step at
\* the head of the body for a command with a non-empty name, which writes
\* the entry of that name and no other; a step that expands an argument,
\* with or without success, and the step for a command with an empty name
\* leave it as it is (a command with neither name nor arguments only moves
\* run on to the next command); no key is ever removed.
C17_TableFrame ==
    /\ []((idx = 1 /\ pc = "bind") => binds = <<>>)
    /\ [][binds' # binds
            => (/\ AtCommand /\ script[idx].name # <<>>
                /\ DOMAIN binds' = DOMAIN binds \cup {script[idx].name}
                /\ binds'[script[idx].name] = script[idx].bind
                /\ \A n \in DOMAIN binds \ {script[idx].name} :
                      binds'[n] = binds[n])]_vars
    /\ [][DOMAIN binds \subseteq DOMAIN binds']_vars
    /\ [][evals' # evals => binds' = binds]_vars
    /\ [][(AtCommand /\ script[idx].name = <<>>)
            => (/\ binds' = binds
                /\ (script[idx].cmd = <<>>
                       => (/\ idx' = idx + 1 /\ result' = "running"
                           /\ UNCHANGED <<stderr, evals, procs>>)))]_vars

C17_Witness ==
    /\ result = "ok" /\ Len(script) = 2
    /\ script[1].name = <<>> /\ script[1].cmd = <<>>
    /\ script[2].name # <<>> /\ script[2].cmd # <<>>
    /\ DOMAIN binds = {script[2].name}
    /\ evals # <<>>

(* ------------------------------ C18 ------------------------------------ *)
\* C18: an iteration of eval with a character left consumes at least one
\* character or returns Err, and never moves the cursor past the end; an
\* iteration that stands at a character other than the sentinel consumes
\* at least one character and does not fail, so the empty check of
\* parse_text never fires; and every call of eval returns.
C18_ScanProgress ==
    /\ [][(state = "loop" /\ chars < Len(text))
            => (/\ (chars' > chars \/ state' = "err")
                /\ chars' <= Len(text))]_vars
    /\ [][(state = "loop" /\ chars < Len(text)
                           /\ text[chars + 1] # Sentinel)
            => (state' = "loop" /\ chars' > chars)]_vars
    /\ <>Returned

C18_Witness ==
    /\ state = "ok" /\ chars = Len(text) /\ Len(text) >= 4
    /\ Len(Starts(text)) >= 3
    /\ \E p \in StartSet(text) : IsLiteralAt(text, p)
    /\ \E p \in StartSet(text) : IsMarkerAt(text, p)

====
